---- MODULE Spec2Model ----
(***************************************************************************)
(* Call Sentinel (src/app.py): the scoring pipeline behind the "Analyze    *)
(* Call for Fraud" button.  A session saves its uploaded recording to the  *)
(* file temp_audio.wav, transcribes that file, scans the transcript for    *)
(* scam phrases, analyses the file's waveform, blends the two scores and   *)
(* shows a banner.                                                         *)
(*                                                                         *)
(* Text is a sequence of one-character strings, so that lower-casing and   *)
(* substring search are computed as Python computes them.  A float is an   *)
(* exact fraction <<num, den>> with den > 0, or NaN == <<0, 0>>.  In the   *)
(* pipeline the silence ratio is 1 - active/len with len below 10, where   *)
(* the comparison with the literal 0.3 comes out the same in IEEE double   *)
(* arithmetic as in exact arithmetic (the two differ only when active/len  *)
(* is exactly 7/10).  final_score is kept in tenths, 0.7*k + 0.3*a =       *)
(* (7*k + 3*a)/10, which is exact in double arithmetic for every pair of   *)
(* scores the program can produce.                                         *)
(***************************************************************************)
EXTENDS Integers, Sequences, FiniteSets

VARIABLES
    uploaded,       \* uploaded_file of each session (line 75)
    temp_audio,     \* content of the file temp_audio.wav (lines 84-85)
    pc,             \* each session's position in the handler of the button
    heard,          \* the recording transcribe_audio read (line 88)
    failure,        \* the exception the recognizer raised, or "none" (lines 18-29)
    transcript,     \* line 88
    keywords,       \* line 89
    text_risk,      \* line 89
    loaded,         \* the recording librosa.load read (line 92 / 52)
    silence_ratio,  \* line 56
    flatness,       \* line 61 / 92
    fake_prob,      \* line 92
    final_score,    \* line 96, in tenths
    banner          \* lines 102-105

vars == << uploaded, temp_audio, pc, heard, failure, transcript, keywords,
           text_risk, loaded, silence_ratio, flatness, fake_prob,
           final_score, banner >>

-----------------------------------------------------------------------------
(* Bounds of the model *)

\* a transcript is at most MaxWords utterances long
MaxWords == 2
\* a waveform has at most MaxLen samples
MaxLen == 2
\* average spectral flatness ranges over 0 .. MaxFlat, in units of 0.005
MaxFlat == 2

-----------------------------------------------------------------------------
(* Text *)

UpperCase ==
    <<"A","B","C","D","E","F","G","H","I","J","K","L","M","N","O","P","Q","R","S","T","U","V","W","X","Y","Z">>

LowerCase ==
    <<"a","b","c","d","e","f","g","h","i","j","k","l","m","n","o","p","q","r","s","t","u","v","w","x","y","z">>

\* the lower-case letter of each upper-case letter
ToLower ==
    [c \in { UpperCase[i] : i \in 1..26 } |->
        LowerCase[CHOOSE i \in 1..26 : UpperCase[i] = c]]

\* str.lower() on one character
LowerChar(c) == IF c \in DOMAIN ToLower THEN ToLower[c] ELSE c

\* text.lower()
Lower(text) == [i \in 1..Len(text) |-> LowerChar(text[i])]

\* the number of places where word starts in text (used by the properties)
Occurrences(word, text) ==
    Cardinality({ i \in 1..(Len(text) - Len(word) + 1) :
                    text[i] = word[1] /\ SubSeq(text, i, i + Len(word) - 1) = word })

\* Python's  word in text  on strings
Contains(text, word) ==
    \/ word = << >>
    \/ \E i \in 1..(Len(text) - Len(word) + 1) :
          /\ text[i] = word[1]
          /\ SubSeq(text, i, i + Len(word) - 1) = word

-----------------------------------------------------------------------------
(* MODULE 2: keyword analysis *)

SCAM_KEYWORDS ==
    << <<"g","i","f","t"," ","c","a","r","d">>,
       <<"u","r","g","e","n","t">>,
       <<"w","i","r","e"," ","t","r","a","n","s","f","e","r">>,
       <<"s","o","c","i","a","l"," ","s","e","c","u","r","i","t","y">>,
       <<"p","o","l","i","c","e">>,
       <<"a","r","r","e","s","t">>,
       <<"v","e","r","i","f","y"," ","y","o","u","r"," ","a","c","c","o","u","n","t">>,
       <<"o","t","p">>,
       <<"p","a","s","s","w","o","r","d">>,
       <<"r","e","f","u","n","d">>,
       <<"a","m","a","z","o","n">>,
       <<"b","a","n","k"," ","a","c","c","o","u","n","t">> >>

\* [x for x in list if keep(x)], in list order
RECURSIVE Comprehension(_, _, _)
Comprehension(list, text, i) ==
    IF i > Len(list) THEN << >>
    ELSE (IF Contains(text, list[i]) THEN << list[i] >> ELSE << >>)
         \o Comprehension(list, text, i + 1)

Min(a, b) == IF a < b THEN a ELSE b

\* a scorer that compares the text as it is, without lower-casing it
detected_case_sensitive(text) == Comprehension(SCAM_KEYWORDS, text, 1)

\* detected = [word for word in SCAM_KEYWORDS if word in text_lower]
detected_in(text) == Comprehension(SCAM_KEYWORDS, Lower(text), 1)

RECURSIVE SumOccurrences(_, _)
SumOccurrences(list, text) ==
    IF list = << >> THEN 0
    ELSE Occurrences(Head(list), text) + SumOccurrences(Tail(list), text)

\* a scorer that counts every occurrence of a phrase
risk_per_occurrence(text) ==
    Min(SumOccurrences(SCAM_KEYWORDS, Lower(text)) * 35, 100)

\* risk_score = min(len(detected) * 35, 100)
risk_score_of(text) == Min(Len(detected_in(text)) * 35, 100)

\* analyze_keywords(text) returns (detected, risk_score)
analyze_keywords(text) ==
    [detected |-> detected_in(text), risk_score |-> risk_score_of(text)]

-----------------------------------------------------------------------------
(* Floats: <<num, den>> with den > 0 is the fraction num/den; NaN is <<0, 0>> *)

NaN == << 0, 0 >>

IsNumber(x) == x[2] > 0

\* x < y and x > y on floats; a comparison with NaN is False
Lt(x, y) == IsNumber(x) /\ IsNumber(y) /\ x[1] * y[2] < y[1] * x[2]

Gt(x, y) == Lt(y, x)

Le(x, y) == IsNumber(x) /\ IsNumber(y) /\ x[1] * y[2] <= y[1] * x[2]

\* numpy's  a / n  of a numpy scalar by an int: 0 / 0 is nan (a warning, no exception)
Div(a, n) == IF n = 0 THEN NaN ELSE << a, n >>

\* 1 - x
OneMinus(x) == IF IsNumber(x) THEN << x[2] - x[1], x[2] >> ELSE NaN

-----------------------------------------------------------------------------
(* Recordings: what the recognizer hears in one, and what librosa measures *)

Utterances ==
    << <<"U","R","G","E","N","T"," ","w","i","r","e"," ","T","r","a","n","s","f","e","r">>,
       <<"p","l","e","a","s","e"," ","v","e","r","i","f","y"," ","y","o","u","r"," ","a","c","c","o","u","n","t"," ","a","n","d"," ","p","r","o","v","i","d","e"," ","y","o","u","r"," ","o","t","p">>,
       <<"O","t","p">>,
       <<"P","o","l","i","c","e","m","a","n">>,
       <<"l","a","p","t","o","p">> >>

RECURSIVE Join(_)
Join(ws) ==
    IF ws = << >> THEN << >>
    ELSE IF Len(ws) = 1 THEN Utterances[ws[1]]
    ELSE Utterances[ws[1]] \o <<" ">> \o Join(Tail(ws))

\* what is said in a recording: up to MaxWords utterances, or nothing that
\* recognize_google understands
Speech ==
    { [understood |-> TRUE, words |-> ws] :
        ws \in UNION { [1..n -> 1..Len(Utterances)] : n \in 0..MaxWords } }
    \cup { [understood |-> FALSE, words |-> << >>] }

\* len: len(y); active: the summed length of the non-silent intervals;
\* flat: np.mean(flatness) in units of 0.005
Recordings ==
    { a \in [speech : Speech, len : 0..MaxLen, active : 0..MaxLen, flat : 0..MaxFlat] :
        a.active <= a.len }

NoFile == [missing |-> TRUE]

-----------------------------------------------------------------------------
(* MODULE 1: transcription *)

UnknownValueMessage ==
    <<"E","r","r","o","r",":"," ","C","o","u","l","d"," ","n","o","t"," ","u","n","d","e","r","s","t","a","n","d"," ","a","u","d","i","o"," ","(","Q","u","a","l","i","t","y"," ","t","o","o"," ","l","o","w",")",".">>

RequestErrorMessage ==
    <<"E","r","r","o","r",":"," ","A","P","I"," ","u","n","a","v","a","i","l","a","b","l","e",".">>

ExceptionPrefix ==
    <<"E","r","r","o","r"," ","p","r","o","c","e","s","s","i","n","g"," ","f","i","l","e",":"," ">>

\* str(e) of an exception the recognizer raises
Details ==
    { <<"t","i","m","e","d"," ","o","u","t">>,
      <<"P","r","o","x","y"," ","P","A","S","S","W","O","R","D"," ","r","e","q","u","i","r","e","d">> }

\* what the body of the try block does on a recording: it returns the text, or
\* raises UnknownValueError, RequestError or some other exception
RecognizerEvents(audio) ==
    { [exc |-> IF audio.speech.understood THEN "none" ELSE "UnknownValueError",
       text |-> Join(audio.speech.words)] }
    \cup { [exc |-> e, text |-> d] : e \in {"RequestError", "Exception"}, d \in Details }

\* a transcriber whose handler of RequestError appends str(e) to its message
transcribe_reporting_request_error(event) ==
    CASE event.exc = "none" -> [raised |-> FALSE, text |-> event.text]
      [] event.exc = "UnknownValueError" -> [raised |-> FALSE, text |-> UnknownValueMessage]
      [] event.exc = "RequestError" ->
            [raised |-> FALSE, text |-> RequestErrorMessage \o <<" ">> \o event.text]
      [] OTHER -> [raised |-> FALSE, text |-> ExceptionPrefix \o event.text]

\* a transcriber without the last handler, except Exception
transcribe_without_catch_all(event) ==
    CASE event.exc = "none" -> [raised |-> FALSE, text |-> event.text]
      [] event.exc = "UnknownValueError" -> [raised |-> FALSE, text |-> UnknownValueMessage]
      [] event.exc = "RequestError" -> [raised |-> FALSE, text |-> RequestErrorMessage]
      [] OTHER -> [raised |-> TRUE, text |-> << >>]

\* transcribe_audio(file_path), given what the try block did
transcribe_audio(event) ==
    CASE event.exc = "none" -> [raised |-> FALSE, text |-> event.text]
      [] event.exc = "UnknownValueError" -> [raised |-> FALSE, text |-> UnknownValueMessage]
      [] event.exc = "RequestError" -> [raised |-> FALSE, text |-> RequestErrorMessage]
      [] OTHER -> [raised |-> FALSE, text |-> ExceptionPrefix \o event.text]

-----------------------------------------------------------------------------
(* MODULE 3: audio artifacts *)

\* silence_ratio = 1 - (np.sum(...) / len(y))
silence_ratio_of(audio) == OneMinus(Div(audio.active, audio.len))

\* avg_flatness = np.mean(flatness)
avg_flatness_of(audio) == << audio.flat, 200 >>

\* a heuristic whose flatness test is not strict
heuristic_flatness_le(avg_flatness, ratio) ==
    (IF Le(avg_flatness, << 1, 100 >>) THEN 20 ELSE 0)
    + (IF Gt(ratio, << 3, 10 >>) THEN 30 ELSE 0)

\* fake_prob = 0; +20 if avg_flatness < 0.01; +30 if silence_ratio > 0.3
heuristic(avg_flatness, ratio) ==
    (IF Lt(avg_flatness, << 1, 100 >>) THEN 20 ELSE 0)
    + (IF Gt(ratio, << 3, 10 >>) THEN 30 ELSE 0)

\* analyze_audio_features(file_path) returns (fake_prob, avg_flatness)
analyze_audio_features(audio) ==
    [fake_prob |-> heuristic(avg_flatness_of(audio), silence_ratio_of(audio)),
     avg_flatness |-> avg_flatness_of(audio),
     silence_ratio |-> silence_ratio_of(audio)]

-----------------------------------------------------------------------------
(* The UI logic: aggregation and banner *)

\* a blend that first rescales the acoustic score from 0..50 to 0..100
blend_normalised(risk, prob) == 7 * risk + 3 * (2 * prob)

\* a blend with the two weights exchanged
blend_weights_swapped(risk, prob) == 3 * risk + 7 * prob

\* final_score = (text_risk * 0.7) + (fake_prob * 0.3), in tenths
blend(risk, prob) == 7 * risk + 3 * prob

\* a banner that takes the score for a fraction of 1: final_score > 0.5
banner_fraction_threshold(score) ==
    [level |-> IF score > 5 THEN "HIGH" ELSE "LOW", risk |-> score \div 10]

\* if final_score > 50: HIGH THREAT (Risk: int(final_score)%) else: Low Threat
banner_of(score) ==
    [level |-> IF score > 500 THEN "HIGH" ELSE "LOW", risk |-> score \div 10]

NoBanner == [level |-> "none", risk |-> 0]

-----------------------------------------------------------------------------
(* The handler of the button, one step per access to temp_audio.wav *)

InitOf(sessions, recordings) ==
    /\ uploaded \in [sessions -> recordings]
    /\ temp_audio = NoFile
    /\ pc = [r \in sessions |-> "button"]
    /\ heard = [r \in sessions |-> NoFile]
    /\ failure = [r \in sessions |-> "none"]
    /\ transcript = [r \in sessions |-> << >>]
    /\ keywords = [r \in sessions |-> << >>]
    /\ text_risk = [r \in sessions |-> 0]
    /\ loaded = [r \in sessions |-> NoFile]
    /\ silence_ratio = [r \in sessions |-> NaN]
    /\ flatness = [r \in sessions |-> NaN]
    /\ fake_prob = [r \in sessions |-> 0]
    /\ final_score = [r \in sessions |-> 0]
    /\ banner = [r \in sessions |-> NoBanner]

\* lines 80-85: the button is clicked (again, after a finished run) and the
\* upload is written to temp_audio.wav, open and write taken as one step; the
\* run starts with no results
Click(r) ==
    /\ pc[r] \in {"button", "done"}
    /\ temp_audio' = uploaded[r]
    /\ pc' = [pc EXCEPT ![r] = "transcribe"]
    /\ heard' = [heard EXCEPT ![r] = NoFile]
    /\ failure' = [failure EXCEPT ![r] = "none"]
    /\ transcript' = [transcript EXCEPT ![r] = << >>]
    /\ keywords' = [keywords EXCEPT ![r] = << >>]
    /\ text_risk' = [text_risk EXCEPT ![r] = 0]
    /\ loaded' = [loaded EXCEPT ![r] = NoFile]
    /\ silence_ratio' = [silence_ratio EXCEPT ![r] = NaN]
    /\ flatness' = [flatness EXCEPT ![r] = NaN]
    /\ fake_prob' = [fake_prob EXCEPT ![r] = 0]
    /\ final_score' = [final_score EXCEPT ![r] = 0]
    /\ banner' = [banner EXCEPT ![r] = NoBanner]
    /\ UNCHANGED uploaded

\* lines 88-89: transcribe temp_audio.wav and scan the transcript
Transcribe(r) ==
    /\ pc[r] = "transcribe"
    /\ \E event \in RecognizerEvents(temp_audio) :
         LET result == transcribe_audio(event)
             finding == analyze_keywords(result.text) IN
         /\ heard' = [heard EXCEPT ![r] = temp_audio]
         /\ failure' = [failure EXCEPT ![r] = event.exc]
         /\ IF result.raised
            THEN /\ pc' = [pc EXCEPT ![r] = "aborted"]
                 /\ UNCHANGED << transcript, keywords, text_risk >>
            ELSE /\ pc' = [pc EXCEPT ![r] = "audio"]
                 /\ transcript' = [transcript EXCEPT ![r] = result.text]
                 /\ keywords' =
                      [keywords EXCEPT ![r] = finding.detected]
                 /\ text_risk' =
                      [text_risk EXCEPT ![r] = finding.risk_score]
    /\ UNCHANGED << uploaded, temp_audio, loaded, silence_ratio, flatness,
                    fake_prob, final_score, banner >>

\* lines 92-105: analyse temp_audio.wav, blend the scores, show the banner
Analyze(r) ==
    /\ pc[r] = "audio"
    /\ LET features == analyze_audio_features(temp_audio)
           score == blend(text_risk[r], features.fake_prob) IN
       /\ loaded' = [loaded EXCEPT ![r] = temp_audio]
       /\ silence_ratio' = [silence_ratio EXCEPT ![r] = features.silence_ratio]
       /\ flatness' = [flatness EXCEPT ![r] = features.avg_flatness]
       /\ fake_prob' = [fake_prob EXCEPT ![r] = features.fake_prob]
       /\ final_score' = [final_score EXCEPT ![r] = score]
       /\ banner' = [banner EXCEPT ![r] = banner_of(score)]
    /\ pc' = [pc EXCEPT ![r] = "done"]
    /\ UNCHANGED << uploaded, temp_audio, heard, failure, transcript, keywords,
                    text_risk >>

Next ==
    \/ \E r \in DOMAIN pc : Click(r)
    \/ \E r \in DOMAIN pc : Transcribe(r)
    \/ \E r \in DOMAIN pc : Analyze(r)

\* one session
Spec == InitOf({1}, Recordings) /\ [][Next]_vars

\* a few recordings of full length, for two sessions at once
ConcRecordings ==
    { a \in Recordings :
        /\ a.len = MaxLen /\ a.active \in {0, MaxLen} /\ a.flat = 1
        /\ a.speech.understood /\ a.speech.words \in { <<1>>, <<5>> } }

\* two sessions of the app, served at the same time from one working directory
SpecConc == InitOf({1, 2}, ConcRecordings) /\ [][Next]_vars

-----------------------------------------------------------------------------
(* The heuristic of lines 66-71 on its own: any pair of measurements *)

RatioGrid == { << k, 20 >> : k \in 0..20 } \cup { NaN }

FlatnessGrid == { << j, 1000 >> : j \in {0, 5, 9, 10, 11, 50} }

InitScore ==
    /\ uploaded = [r \in {1} |-> NoFile]
    /\ temp_audio = NoFile
    /\ pc = [r \in {1} |-> "features"]
    /\ heard = [r \in {1} |-> NoFile]
    /\ failure = [r \in {1} |-> "none"]
    /\ transcript = [r \in {1} |-> << >>]
    /\ keywords = [r \in {1} |-> << >>]
    /\ text_risk = [r \in {1} |-> 0]
    /\ loaded = [r \in {1} |-> NoFile]
    /\ silence_ratio \in [{1} -> RatioGrid]
    /\ flatness \in [{1} -> FlatnessGrid]
    /\ fake_prob = [r \in {1} |-> 0]
    /\ final_score = [r \in {1} |-> 0]
    /\ banner = [r \in {1} |-> NoBanner]

\* lines 66-72, from the two measurements to fake_prob
Score(r) ==
    /\ pc[r] = "features"
    /\ fake_prob' = [fake_prob EXCEPT ![r] = heuristic(flatness[r], silence_ratio[r])]
    /\ pc' = [pc EXCEPT ![r] = "scored"]
    /\ UNCHANGED << uploaded, temp_audio, heard, failure, transcript, keywords,
                    text_risk, loaded, silence_ratio, flatness, final_score,
                    banner >>

NextScore == \E r \in DOMAIN pc : Score(r)

SpecScore == InitScore /\ [][NextScore]_vars

-----------------------------------------------------------------------------
(* Properties *)

Sessions == DOMAIN pc

\* the session has a transcript and a keyword finding
Scanned(r) == pc[r] \in {"audio", "done"}

\* the lexicon phrases that occur in the lower-cased text
Matched(text) ==
    LET lowered == Lower(text) IN
    { i \in 1..Len(SCAM_KEYWORDS) : Occurrences(SCAM_KEYWORDS[i], lowered) >= 1 }

\* C1: the keyword score of every transcript is min(35 * N, 100), N the number
\* of distinct lexicon phrases occurring in the lower-cased transcript, however
\* often each occurs; so it is one of 0, 35, 70, 100.
C1_KeywordScore ==
    \A r \in Sessions :
        Scanned(r) =>
            LET n == Cardinality(Matched(transcript[r])) IN
            /\ text_risk[r] = Min(35 * n, 100)
            /\ Len(keywords[r]) = n
            /\ text_risk[r] \in {0, 35, 70, 100}

\* a transcript in which "otp" occurs twice and no other phrase scores 35
C1_Witness ==
    \E r \in Sessions :
        /\ Scanned(r)
        /\ Occurrences(SCAM_KEYWORDS[8], Lower(transcript[r])) = 2
        /\ Matched(transcript[r]) = {8}
        /\ text_risk[r] = 35

\* C2: the acoustic score gains 20 exactly when avgFlatness < 0.01 and 30
\* exactly when silenceRatio > 0.3, both tests strict; it is one of 0, 20, 30,
\* 50, and at avgFlatness = 0.01 or silenceRatio = 0.3 nothing is added.
C2_AcousticScore ==
    \A r \in Sessions :
        pc[r] = "scored" =>
            LET f == flatness[r]
                s == silence_ratio[r]
            IN  /\ fake_prob[r] \in {0, 20, 30, 50}
                /\ fake_prob[r] \in {20, 50} <=> (IsNumber(f) /\ 100 * f[1] < f[2])
                /\ fake_prob[r] \in {30, 50} <=> (IsNumber(s) /\ 10 * s[1] > 3 * s[2])
                /\ (100 * f[1] = f[2]) => fake_prob[r] \in {0, 30}
                /\ (IsNumber(s) /\ 10 * s[1] = 3 * s[2]) => fake_prob[r] \in {0, 20}

\* both measurements on their thresholds: nothing is added
C2_Witness ==
    \E r \in Sessions :
        /\ pc[r] = "scored"
        /\ flatness[r] = << 10, 1000 >>
        /\ silence_ratio[r] = << 6, 20 >>
        /\ fake_prob[r] = 0

\* C3: finalScore = 0.7 * keywordScore + 0.3 * acousticScore, and it lies in
\* [0, 85] (scores are in tenths here).
C3_FinalScore ==
    \A r \in Sessions :
        pc[r] = "done" =>
            /\ 10 * final_score[r] = 70 * text_risk[r] + 30 * fake_prob[r]
            /\ final_score[r] >= 0
            /\ final_score[r] <= 850

\* three or more phrases and both acoustic flags: the score is 85
C3_Witness ==
    \E r \in Sessions :
        /\ pc[r] = "done"
        /\ Len(keywords[r]) >= 3
        /\ fake_prob[r] = 50
        /\ final_score[r] = 850

\* C4: the banner says high threat exactly when finalScore > 50, decided on
\* the score before it is truncated for display.
C4_HighThreat ==
    \A r \in Sessions :
        pc[r] = "done" =>
            /\ banner[r].level \in {"HIGH", "LOW"}
            /\ banner[r].level = "HIGH" <=> final_score[r] > 500
            /\ final_score[r] <= 500 => banner[r].level = "LOW"

\* scores on both sides of the threshold: 49 is low
C4_Witness ==
    \E r \in Sessions :
        /\ pc[r] = "done"
        /\ final_score[r] = 490
        /\ banner[r] = [level |-> "LOW", risk |-> 49]

\* the message transcribe_audio returns for a failure
IsErrorMessage(exc, text) ==
    CASE exc = "UnknownValueError" -> text = UnknownValueMessage
      [] exc = "RequestError" -> text = RequestErrorMessage
      [] exc = "Exception" -> \E d \in Details : text = ExceptionPrefix \o d
      [] OTHER -> FALSE

\* C5: a failed transcription never aborts the run: transcribe_audio returns
\* the error message, the message is the transcript that is scanned for
\* keywords, and the run goes on to the acoustic analysis and the blend.
C5_ErrorsDoNotAbort ==
    \A r \in Sessions :
        failure[r] # "none" =>
            /\ pc[r] \in {"audio", "done"}
            /\ IsErrorMessage(failure[r], transcript[r])
            /\ LET matched == Matched(transcript[r]) IN
               \A i \in 1..Len(SCAM_KEYWORDS) :
                 (\E k \in 1..Len(keywords[r]) : keywords[r][k] = SCAM_KEYWORDS[i])
                   <=> i \in matched
            /\ pc[r] = "audio" => ENABLED Analyze(r)
            /\ pc[r] = "done" =>
                 /\ loaded[r] # NoFile
                 /\ banner[r].level # "none"
                 /\ 10 * final_score[r] = 70 * text_risk[r] + 30 * fake_prob[r]

\* a run that failed with some other exception, whose message was scanned and
\* scored, and that got its banner
C5_Witness ==
    \E r \in Sessions :
        /\ pc[r] = "done"
        /\ failure[r] = "Exception"
        /\ keywords[r] = << SCAM_KEYWORDS[9] >>
        /\ text_risk[r] = 35

\* C6: the analysis of an empty sample ends in a defined silence ratio or is
\* rejected; it does not finish on a division by the zero sample length.
C6_EmptySampleDefined ==
    \A r \in Sessions :
        (pc[r] = "done" /\ loaded[r].len = 0) => IsNumber(silence_ratio[r])

\* C7: every session's transcript, keywords and acoustic finding are computed
\* from the recording that session uploaded.
C7_OwnAudio ==
    \A r \in Sessions :
        /\ heard[r] # NoFile => heard[r] = uploaded[r]
        /\ loaded[r] # NoFile => loaded[r] = uploaded[r]

\* re-casings of a text: str.upper() and str.swapcase()
ToUpper ==
    [c \in { LowerCase[i] : i \in 1..26 } |->
        UpperCase[CHOOSE i \in 1..26 : LowerCase[i] = c]]

UpperChar(c) == IF c \in DOMAIN ToUpper THEN ToUpper[c] ELSE c

SwapChar(c) == IF c \in DOMAIN ToLower THEN ToLower[c] ELSE UpperChar(c)

Upper(text) == [i \in 1..Len(text) |-> UpperChar(text[i])]

SwapCase(text) == [i \in 1..Len(text) |-> SwapChar(text[i])]

\* the place of a phrase in the lexicon
Place(word) == CHOOSE i \in 1..Len(SCAM_KEYWORDS) : SCAM_KEYWORDS[i] = word

\* C8: matching ignores case: a phrase is matched in the transcript exactly
\* when it is matched in the transcript re-cased (upper, lower, swapped), and
\* the matched phrases are listed in lexicon order.
C8_CaseInsensitive ==
    \A r \in Sessions :
        Scanned(r) =>
            /\ analyze_keywords(Upper(transcript[r])).detected = keywords[r]
            /\ analyze_keywords(Lower(transcript[r])).detected = keywords[r]
            /\ analyze_keywords(SwapCase(transcript[r])).detected = keywords[r]
            /\ \A k \in 1..Len(keywords[r]) :
                 \E i \in 1..Len(SCAM_KEYWORDS) : SCAM_KEYWORDS[i] = keywords[r][k]
            /\ \A j, k \in 1..Len(keywords[r]) :
                 j < k => Place(keywords[r][j]) < Place(keywords[r][k])
            /\ transcript[r] = Utterances[1] =>
                 keywords[r] = << SCAM_KEYWORDS[2], SCAM_KEYWORDS[3] >>

\* "URGENT wire Transfer" matches "urgent" and "wire transfer"
C8_Witness ==
    \E r \in Sessions :
        /\ Scanned(r)
        /\ transcript[r] = Utterances[1]
        /\ transcript[r] # Lower(transcript[r])
        /\ keywords[r] = << SCAM_KEYWORDS[2], SCAM_KEYWORDS[3] >>

\* C9: the banner says high threat exactly when three or more phrases matched,
\* or two matched and the acoustic score is above 0; acoustics alone (at most
\* 15), one phrase (at most 39.5) and two phrases with clean acoustics (49)
\* are low.
C9_HighThreatCases ==
    \A r \in Sessions :
        pc[r] = "done" =>
            LET n == Cardinality(Matched(transcript[r])) IN
            /\ banner[r].level = "HIGH" <=> (n >= 3 \/ (n = 2 /\ fake_prob[r] > 0))
            /\ n = 0 => (final_score[r] <= 150 /\ banner[r].level = "LOW")
            /\ n = 1 => (final_score[r] <= 395 /\ banner[r].level = "LOW")
            /\ (n = 2 /\ fake_prob[r] = 0) =>
                 (final_score[r] = 490 /\ banner[r].level = "LOW")

\* two phrases and the smaller acoustic flag: high
C9_Witness ==
    \E r \in Sessions :
        /\ pc[r] = "done"
        /\ Cardinality(Matched(transcript[r])) = 2
        /\ fake_prob[r] = 20
        /\ banner[r].level = "HIGH"

\* C10: after UnknownValueError or RequestError the scanned message holds no
\* lexicon phrase: no keywords, keyword score 0, never a high-threat banner;
\* keyword hits after a failure come from the message of another exception.
C10_FixedMessagesScoreZero ==
    \A r \in Sessions :
        /\ (Scanned(r) /\ failure[r] \in {"UnknownValueError", "RequestError"}) =>
              /\ keywords[r] = << >>
              /\ text_risk[r] = 0
              /\ pc[r] = "done" => banner[r].level = "LOW"
        /\ (Scanned(r) /\ failure[r] # "none" /\ keywords[r] # << >>) =>
              failure[r] = "Exception"

\* the service was unavailable and the acoustic score is at its highest: low
C10_Witness ==
    \E r \in Sessions :
        /\ pc[r] = "done"
        /\ failure[r] = "RequestError"
        /\ fake_prob[r] = 50
        /\ final_score[r] = 150
        /\ banner[r].level = "LOW"

====
